---- MODULE Spec2Model ----
(***************************************************************************)
(* AmiWrapper (src/amipy/amiwrapper.py): the host-side adapter that drives *)
(* a dynamically loaded simulation kernel.  Every public method is one     *)
(* action.  The kernel is the environment: each kernel function returns a  *)
(* status and writes its outputs, both chosen nondeterministically.        *)
(*                                                                         *)
(* Environment assumptions: os.chdir succeeds (working_directory is "."    *)
(* or an absolute path of an existing directory), and within one method    *)
(* invocation the kernel reports the same rank for the same variable.      *)
(***************************************************************************)
EXTENDS Integers, Sequences, FiniteSets, TLC

VARIABLES
    cwd,                 \* the process current directory (os.getcwd())
    working_directory,   \* self.working_directory
    previous_directory,  \* self.previous_directory
    klog,                \* the kernel functions the last method invoked, in order
    kprev,               \* the last coupling call the kernel completed before the last method
    last                 \* the last method invocation and how it ended

vars == <<cwd, working_directory, previous_directory, klog, kprev, last>>

----------------------------------------------------------------------------
(* Bounds and input sets *)

MaxRank == 2
DimVals == {0, 5}
Statuses == {0, 1, -1}
HomeDir == "/home"
WorkDirs == {".", "/work"}
VarNames == {"HEAD", "NITER"}
GridIds == {1, 2}
ComponentIds == {1, 2}
ConfigFiles == {"mfsim.nam"}
TimeVals == {0, 3}
SizeVals == {4, 8}

\* type strings the kernel reports, as character sequences
TDouble == <<"D", "O", "U", "B", "L", "E">>
TInt == <<"I", "n", "t">>
TChar == <<"C", "H", "A", "R">>
TShort == <<"I", "N">>
TypeStrings == {TDouble, TInt, TChar, TShort}

\* the values a kernel may leave in solve's convergence output: nothing, or an int
ConvergenceWrites == {<<>>, <<-1>>, <<0>>, <<1>>, <<2>>}

----------------------------------------------------------------------------
(* Constants of the module *)

BMI_SUCCESS == 0
BMI_FAILURE == 1

----------------------------------------------------------------------------
(* Pure helpers *)

\* os.chdir(path) from directory dir: "." stays, an absolute path replaces
Chdir(dir, path) == IF path = "." THEN dir ELSE path

\* str(n) for the integers used as ids
Str(n) ==
    CASE n = 0 -> "0"
      [] n = 1 -> "1"
      [] n = 2 -> "2"
      [] n = 3 -> "3"
      [] OTHER -> "?"

\* str(id) where id is the Python builtin function
BuiltinIdStr == "<built-in function id>"

\* one character of str.lower()
LowerChar(c) ==
    CASE c = "A" -> "a" [] c = "B" -> "b" [] c = "C" -> "c" [] c = "D" -> "d"
      [] c = "E" -> "e" [] c = "H" -> "h" [] c = "I" -> "i" [] c = "L" -> "l"
      [] c = "N" -> "n" [] c = "O" -> "o" [] c = "R" -> "r" [] c = "T" -> "t"
      [] c = "U" -> "u"
      [] OTHER -> c

Lower(s) == [i \in 1..Len(s) |-> LowerChar(s[i])]

StartsWith(s, prefix) ==
    /\ Len(s) >= Len(prefix)
    /\ SubSeq(s, 1, Len(prefix)) = prefix

IsDoubleType(vartype) == StartsWith(Lower(vartype), <<"d", "o", "u", "b", "l", "e">>)
IsIntType(vartype) == StartsWith(Lower(vartype), <<"i", "n", "t">>)

\* np.trim_zeros(filt) with the default trim='fb'
RECURSIVE LeadingZeros(_)
LeadingZeros(filt) ==
    IF filt = <<>> \/ Head(filt) # 0 THEN 0 ELSE 1 + LeadingZeros(Tail(filt))

RECURSIVE LastNonZero(_)
LastNonZero(filt) ==
    IF filt = <<>> \/ filt[Len(filt)] # 0 THEN Len(filt)
    ELSE LastNonZero(SubSeq(filt, 1, Len(filt) - 1))

\* trim='b': only the trailing zeros
TrimZerosBack(filt) == SubSeq(filt, 1, LastNonZero(filt))

TrimZeros(filt) == SubSeq(filt, LeadingZeros(filt) + 1, LastNonZero(filt))

----------------------------------------------------------------------------
(* Records: kernel calls, returned values, and the run of one method *)

\* one invocation of a kernel function: its subject, the status it returned,
\* the directory the process was in, and what it wrote to its outputs
Call(fn, name, id, status, dir, out, text) ==
    [fn |-> fn, name |-> name, id |-> id, status |-> status, cwd |-> dir,
     out |-> out, text |-> text]

NoValue ==
    [kind |-> "None", dtype |-> "", shape |-> <<>>, num |-> 0, flag |-> FALSE,
     text |-> <<>>]
NumValue(kind, n) == [NoValue EXCEPT !.kind = kind, !.num = n]
TextValue(t) == [NoValue EXCEPT !.kind = "str", !.text = t]
ArrayValue(a) == [NoValue EXCEPT !.kind = "array", !.dtype = "int32", !.shape = a]
BoolValue(b) == [NoValue EXCEPT !.kind = "bool", !.flag = b]
\* values.contents: an array view of the given element type and shape
ViewValue(dtype, shape) == [NoValue EXCEPT !.kind = "view", !.dtype = dtype, !.shape = shape]

\* detail strings, as the pieces the code concatenates
NoDetail == <<>>
VarDetail(name) == <<"for variable ", name>>
GridDetail(grid) == <<"for id ", Str(grid)>>
\* "for id " + str(id): id is the builtin, not the grid argument
GridDetailBuiltin(grid) == <<"for id ", BuiltinIdStr>>

check_result_bad(result, function_name, detail) ==
    IF result = BMI_FAILURE
    THEN [raised |-> TRUE,
          msg |-> <<"MODFLOW 6 BMI, exception in: ", function_name, " (">>
                  \o detail \o <<")">>]
    ELSE [raised |-> FALSE, msg |-> <<>>]

check_result(result, function_name, detail) ==
    IF result # BMI_SUCCESS
    THEN [raised |-> TRUE,
          msg |-> <<"MODFLOW 6 BMI, exception in: ", function_name, " (">>
                  \o detail \o <<")">>]
    ELSE [raised |-> FALSE, msg |-> <<>>]

\* the run of (part of) a method: the kernel calls made and how it ended
Run(log, raised, exc, msg, value) ==
    [log |-> log, raised |-> raised, exc |-> exc, msg |-> msg, value |-> value]

\* check_result(self.dll.f(...), function_name, detail) followed by a return
KernelRun(c, function_name, detail, value) ==
    LET r == check_result(c.status, function_name, detail)
    IN  IF r.raised
        THEN Run(<<c>>, TRUE, "Exception", r.msg, NoValue)
        ELSE Run(<<c>>, FALSE, "", <<>>, value)

\* the statements of run first, then those of run rest
Then(first, rest) == [rest EXCEPT !.log = first.log \o rest.log]

\* a kernel query with one numeric output slot, initialised to 0
NumRuns(fn, name, id, detail, dir, kind, outs) ==
    {KernelRun(Call(fn, name, id, 0, dir, <<v>>, <<>>), fn, detail, NumValue(kind, v)) :
        v \in outs}
    \cup
    {KernelRun(Call(fn, name, id, s, dir, <<>>, <<>>), fn, detail, NoValue) :
        s \in Statuses \ {0}}

\* a kernel query that fills a string buffer
TextRuns(fn, name, id, detail, dir, texts) ==
    {KernelRun(Call(fn, name, id, 0, dir, <<>>, t), fn, detail, TextValue(t)) :
        t \in texts}
    \cup
    {KernelRun(Call(fn, name, id, s, dir, <<>>, <<>>), fn, detail, NoValue) :
        s \in Statuses \ {0}}

\* a kernel call with no output
PlainRuns(fn, name, id, detail, dir, out) ==
    {KernelRun(Call(fn, name, id, s, dir, out, <<>>), fn, detail, NoValue) :
        s \in Statuses}

----------------------------------------------------------------------------
(* Variable metadata *)

VarRankRuns(name, dir, ranks) ==
    NumRuns("get_var_rank", name, <<>>, VarDetail(name), dir, "int", ranks)

VarTypeRuns(name, dir) ==
    TextRuns("get_var_type", name, <<>>, VarDetail(name), dir, TypeStrings)

VarItemsizeRuns(name, dir) ==
    NumRuns("get_var_itemsize", name, <<>>, VarDetail(name), dir, "int", SizeVals)

VarNbytesRuns(name, dir) ==
    NumRuns("get_var_nbytes", name, <<>>, VarDetail(name), dir, "int", SizeVals)

\* np.zeros(rank) filled by the kernel
ShapeFillRuns(name, dir, rank) ==
    {KernelRun(Call("get_var_shape", name, <<>>, 0, dir, a, <<>>),
               "get_var_shape", VarDetail(name), ArrayValue(a)) :
        a \in [1..rank -> DimVals]}
    \cup
    {KernelRun(Call("get_var_shape", name, <<>>, s, dir, <<>>, <<>>),
               "get_var_shape", VarDetail(name), NoValue) :
        s \in Statuses \ {0}}

VarShapeRuns(name, dir, ranks) ==
    UNION { IF r.raised
            THEN {r}
            ELSE {Then(r, a) : a \in ShapeFillRuns(name, dir, r.value.num)} :
            r \in VarRankRuns(name, dir, ranks) }

----------------------------------------------------------------------------
(* Zero-copy value access *)

\* check_result(self.dll.get_value_ptr_<t>(...), "get_value_ptr", ...); return values.contents
PtrRuns(kfn, name, dir, dtype, shape) ==
    {KernelRun(Call(kfn, name, <<>>, s, dir, <<>>, <<>>),
               "get_value_ptr", VarDetail(name), ViewValue(dtype, shape)) :
        s \in Statuses}

\* the method falls off its end: Python returns None
ReturnsNone == Run(<<>>, FALSE, "", <<>>, NoValue)

\* assert False
AssertFalse == Run(<<>>, TRUE, "AssertionError", <<>>, NoValue)

ValuePtrScalarRuns(name, dir) ==
    UNION { IF t.raised THEN {t}
            ELSE IF IsDoubleType(t.value.text) THEN {Then(t, AssertFalse)}
            ELSE IF IsIntType(t.value.text)
                 THEN {Then(t, p) :
                        p \in PtrRuns("get_value_ptr_int", name, dir, "int32", <<1>>)}
            ELSE {Then(t, ReturnsNone)} :
            t \in VarTypeRuns(name, dir) }

\* the typed branch of get_value_ptr once type and shape are known
ViewRuns(name, dir, vartype, shape_array) ==
    LET shape_tuple == TrimZeros(shape_array)
    IN  IF IsDoubleType(vartype)
        THEN PtrRuns("get_value_ptr_double", name, dir, "float64", shape_tuple)
        ELSE IF IsIntType(vartype)
        THEN PtrRuns("get_value_ptr_int", name, dir, "int32", shape_tuple)
        ELSE {ReturnsNone}

ValuePtrRuns(name, dir) ==
    UNION { IF r.raised THEN {r}
            ELSE IF r.value.num = 0
            THEN {Then(r, s) : s \in ValuePtrScalarRuns(name, dir)}
            ELSE UNION { IF t.raised THEN {Then(r, t)}
                         ELSE UNION { IF a.raised THEN {Then(r, Then(t, a))}
                                      ELSE {Then(r, Then(t, Then(a, v))) :
                                             v \in ViewRuns(name, dir, t.value.text,
                                                            a.value.shape)} :
                                      a \in VarShapeRuns(name, dir, {r.value.num}) } :
                         t \in VarTypeRuns(name, dir) } :
            r \in VarRankRuns(name, dir, 0..MaxRank) }

----------------------------------------------------------------------------
(* Clock, grid, coupling: the runs of the remaining kernel calls *)

ClockRuns(fn, dir) == NumRuns(fn, "", <<>>, NoDetail, dir, "float", TimeVals)

GridRankRuns(grid, dir) ==
    NumRuns("get_grid_rank", "", <<grid>>, GridDetail(grid), dir, "int", {1, 2})

GridTypeRuns(grid, dir) ==
    TextRuns("get_grid_type", "", <<grid>>, GridDetail(grid), dir,
             {<<"r", "e", "c", "t">>})

\* get_grid_shape, get_grid_x, get_grid_y, get_grid_z: the kernel fills the
\* caller's array (here one element, 0 before the call) and the array is returned
GridArrayRuns(fn, grid, dir) ==
    {KernelRun(Call(fn, "", <<grid>>, 0, dir, w, <<>>), fn, GridDetailBuiltin(grid),
               ArrayValue(IF w = <<>> THEN <<0>> ELSE w)) :
        w \in {<<>>, <<5>>}}
    \cup
    {KernelRun(Call(fn, "", <<grid>>, s, dir, <<>>, <<>>), fn, GridDetailBuiltin(grid),
               NoValue) :
        s \in Statuses \ {0}}

CouplingFns ==
    {"prepare_time_step", "do_time_step", "finalize_time_step",
     "prepare_solve", "solve", "finalize_solve"}

NoStep == [fn |-> "none", id |-> <<>>]

\* the last coupling call the kernel has completed, given the calls of one more method
Received(log, before) ==
    IF log # <<>> /\ log[Len(log)].fn \in CouplingFns /\ log[Len(log)].status = 0
    THEN [fn |-> log[Len(log)].fn, id |-> log[Len(log)].id]
    ELSE before

SubcomponentCountRuns(dir) ==
    NumRuns("get_subcomponent_count", "", <<>>, NoDetail, dir, "int", {1, 2})

\* return has_converged.value == 1
SolveDecodeTruthy(has_converged) == has_converged # 0

SolveDecode(has_converged) == has_converged = 1

\* a solve that refuses a call made out of order
SolveRunsOrdered(component_id, dir) ==
    IF Received(klog, kprev).fn \in {"prepare_solve", "solve"}
       /\ Received(klog, kprev).id = <<component_id>>
    THEN {KernelRun(Call("solve", "", <<component_id>>, s, dir, <<>>, <<>>), "solve",
                    NoDetail, BoolValue(FALSE)) : s \in Statuses}
    ELSE {Run(<<>>, TRUE, "Exception", <<>>, NoValue)}

\* has_converged = c_int(0); the kernel may write it
SolveRuns(component_id, dir) ==
    {KernelRun(Call("solve", "", <<component_id>>, 0, dir, w, <<>>), "solve", NoDetail,
               BoolValue(SolveDecode(IF w = <<>> THEN 0 ELSE w[1]))) :
        w \in ConvergenceWrites}
    \cup
    {KernelRun(Call("solve", "", <<component_id>>, s, dir, <<>>, <<>>), "solve",
               NoDetail, NoValue) :
        s \in Statuses \ {0}}

\* an update_until that is handed to the kernel like update
UpdateUntilRunsKernel ==
    {KernelRun(Call("update_until", "", <<>>, st, cwd, <<>>, <<>>),
               "update_until", NoDetail, NoValue) : st \in Statuses}

\* check_result(BMI_FAILURE, "update_until"): no kernel function is involved
UpdateUntilRuns ==
    LET r == check_result(BMI_FAILURE, "update_until", NoDetail)
    IN  IF r.raised
        THEN {Run(<<>>, TRUE, "Exception", r.msg, NoValue)}
        ELSE {Run(<<>>, FALSE, "", <<>>, NoValue)}

----------------------------------------------------------------------------
(* State *)

\* __init__: both directories are ".", nothing has been called
Init ==
    /\ cwd = HomeDir
    /\ working_directory = "."
    /\ previous_directory = "."
    /\ klog = <<>>
    /\ kprev = NoStep
    /\ last = [method |-> "__init__", name |-> "", id |-> <<>>, cwd0 |-> HomeDir,
               raised |-> FALSE, exc |-> "", msg |-> <<>>, value |-> NoValue]

\* what every method leaves behind: its kernel calls and its outcome
Finish(method, name, id, run) ==
    /\ klog' = run.log
    /\ kprev' = Received(klog, kprev)
    /\ last' = [method |-> method, name |-> name, id |-> id, cwd0 |-> cwd,
                raised |-> run.raised, exc |-> run.exc, msg |-> run.msg,
                value |-> run.value]

\* a method that calls the kernel where the process already is
Unscoped(method, name, id, runs) ==
    /\ \E run \in runs : Finish(method, name, id, run)
    /\ UNCHANGED <<cwd, working_directory, previous_directory>>

\* a scoped method that forgets os.chdir(self.working_directory)
ScopeDirNoChdir == cwd

\* the directory the kernel call of a scoped method runs in
ScopeDir == Chdir(cwd, working_directory)

\* the directory a scoped method leaves the process in: the trailing
\* os.chdir(self.previous_directory) runs only if check_result did not raise
DirAfterFinally(raised, dir, prev) == Chdir(dir, prev)

DirAfter(raised, dir, prev) == IF raised THEN dir ELSE Chdir(dir, prev)

\* previous_directory = os.getcwd(); os.chdir(working_directory);
\* check_result(...); os.chdir(previous_directory)
Scoped(method, name, id, runs) ==
    /\ previous_directory' = cwd
    /\ \E run \in runs :
          /\ cwd' = DirAfter(run.raised, ScopeDir, cwd)
          /\ Finish(method, name, id, run)
    /\ UNCHANGED working_directory

----------------------------------------------------------------------------
(* The methods *)

\* the caller assigns adapter.working_directory before the first call
Configure ==
    /\ last.method = "__init__"
    /\ \E d \in WorkDirs : working_directory' = d
    /\ UNCHANGED <<cwd, previous_directory, klog, kprev, last>>

initialize ==
    \E config_file \in ConfigFiles :
        Scoped("initialize", config_file, <<>>,
               PlainRuns("initialize", config_file, <<>>, NoDetail, ScopeDir, <<>>))

update ==
    Scoped("update", "", <<>>, PlainRuns("update", "", <<>>, NoDetail, ScopeDir, <<>>))

update_until ==
    \E time \in TimeVals : Scoped("update_until", "", <<time>>, UpdateUntilRuns)

finalize ==
    Scoped("finalize", "", <<>>, PlainRuns("finalize", "", <<>>, NoDetail, ScopeDir, <<>>))

get_current_time ==
    Unscoped("get_current_time", "", <<>>, ClockRuns("get_current_time", cwd))

get_start_time ==
    Unscoped("get_start_time", "", <<>>, ClockRuns("get_start_time", cwd))

get_end_time ==
    Unscoped("get_end_time", "", <<>>, ClockRuns("get_end_time", cwd))

get_time_step ==
    Unscoped("get_time_step", "", <<>>, ClockRuns("get_time_step", cwd))

get_var_type ==
    \E name \in VarNames : Unscoped("get_var_type", name, <<>>, VarTypeRuns(name, cwd))

get_var_shape ==
    \E name \in VarNames :
        Unscoped("get_var_shape", name, <<>>, VarShapeRuns(name, cwd, 0..MaxRank))

get_var_rank ==
    \E name \in VarNames :
        Unscoped("get_var_rank", name, <<>>, VarRankRuns(name, cwd, 0..MaxRank))

get_var_itemsize ==
    \E name \in VarNames :
        Unscoped("get_var_itemsize", name, <<>>, VarItemsizeRuns(name, cwd))

get_var_nbytes ==
    \E name \in VarNames :
        Unscoped("get_var_nbytes", name, <<>>, VarNbytesRuns(name, cwd))

get_value_ptr ==
    \E name \in VarNames : Unscoped("get_value_ptr", name, <<>>, ValuePtrRuns(name, cwd))

get_value_ptr_scalar ==
    \E name \in VarNames :
        Unscoped("get_value_ptr_scalar", name, <<>>, ValuePtrScalarRuns(name, cwd))

get_grid_rank ==
    \E grid \in GridIds : Unscoped("get_grid_rank", "", <<grid>>, GridRankRuns(grid, cwd))

get_grid_type ==
    \E grid \in GridIds : Unscoped("get_grid_type", "", <<grid>>, GridTypeRuns(grid, cwd))

get_grid_shape ==
    \E grid \in GridIds :
        Unscoped("get_grid_shape", "", <<grid>>, GridArrayRuns("get_grid_shape", grid, cwd))

get_grid_x ==
    \E grid \in GridIds :
        Unscoped("get_grid_x", "", <<grid>>, GridArrayRuns("get_grid_x", grid, cwd))

get_grid_y ==
    \E grid \in GridIds :
        Unscoped("get_grid_y", "", <<grid>>, GridArrayRuns("get_grid_y", grid, cwd))

get_grid_z ==
    \E grid \in GridIds :
        Unscoped("get_grid_z", "", <<grid>>, GridArrayRuns("get_grid_z", grid, cwd))

prepare_time_step ==
    \E dt \in {1, 2} :
        Scoped("prepare_time_step", "", <<>>,
               PlainRuns("prepare_time_step", "", <<>>, NoDetail, ScopeDir, <<dt>>))

do_time_step ==
    Scoped("do_time_step", "", <<>>,
           PlainRuns("do_time_step", "", <<>>, NoDetail, ScopeDir, <<>>))

finalize_time_step ==
    Scoped("finalize_time_step", "", <<>>,
           PlainRuns("finalize_time_step", "", <<>>, NoDetail, ScopeDir, <<>>))

get_subcomponent_count ==
    Unscoped("get_subcomponent_count", "", <<>>, SubcomponentCountRuns(cwd))

prepare_solve ==
    \E component_id \in ComponentIds :
        Scoped("prepare_solve", "", <<component_id>>,
               PlainRuns("prepare_solve", "", <<component_id>>, NoDetail, ScopeDir, <<>>))

solve ==
    \E component_id \in ComponentIds :
        Scoped("solve", "", <<component_id>>, SolveRuns(component_id, ScopeDir))

finalize_solve ==
    \E component_id \in ComponentIds :
        Scoped("finalize_solve", "", <<component_id>>,
               PlainRuns("finalize_solve", "", <<component_id>>, NoDetail, ScopeDir, <<>>))

Next ==
    \/ Configure
    \/ initialize
    \/ update
    \/ update_until
    \/ finalize
    \/ get_current_time
    \/ get_start_time
    \/ get_end_time
    \/ get_time_step
    \/ get_var_type
    \/ get_var_shape
    \/ get_var_rank
    \/ get_var_itemsize
    \/ get_var_nbytes
    \/ get_value_ptr
    \/ get_value_ptr_scalar
    \/ get_grid_rank
    \/ get_grid_type
    \/ get_grid_shape
    \/ get_grid_x
    \/ get_grid_y
    \/ get_grid_z
    \/ prepare_time_step
    \/ do_time_step
    \/ finalize_time_step
    \/ get_subcomponent_count
    \/ prepare_solve
    \/ solve
    \/ finalize_solve

Spec == Init /\ [][Next]_vars

----------------------------------------------------------------------------
(* Vocabulary of the properties *)

\* the methods that change into working_directory around their kernel call
ScopedMethods ==
    {"initialize", "update", "update_until", "finalize", "prepare_time_step",
     "do_time_step", "finalize_time_step", "prepare_solve", "solve", "finalize_solve"}

VarMethods ==
    {"get_var_type", "get_var_shape", "get_var_rank", "get_var_itemsize",
     "get_var_nbytes", "get_value_ptr", "get_value_ptr_scalar"}

GridMethods ==
    {"get_grid_rank", "get_grid_type", "get_grid_shape", "get_grid_x", "get_grid_y",
     "get_grid_z"}

ValuePtrMethods == {"get_value_ptr", "get_value_ptr_scalar"}

AllSucceeded == \A i \in 1..Len(klog) : klog[i].status = 0

\* the type string and the raw shape the kernel reported to the last get_value_ptr
ReportedTypes == {klog[i].text : i \in {j \in 1..Len(klog) : klog[j].fn = "get_var_type"}}
ReportedShapes == {klog[i].out : i \in {j \in 1..Len(klog) : klog[j].fn = "get_var_shape"}}

\* get_value_ptr went down the N-dimensional path and returned a view
ReturnedNdView ==
    /\ last.method = "get_value_ptr"
    /\ ~last.raised
    /\ last.value.kind = "view"
    /\ ReportedShapes # {}

\* the longest prefix of raw whose last entry is non-zero
PrefixToLastNonZero(raw) ==
    LET nz == {i \in 1..Len(raw) : raw[i] # 0}
    IN  IF nz = {} THEN <<>>
        ELSE SubSeq(raw, 1, CHOOSE i \in nz : \A j \in nz : j <= i)

Zeros(n) == [i \in 1..n |-> 0]

\* the order of section 4.4: which call may follow which (do_time_step, the
\* single-shot alternative, is left unconstrained)
Allowed(prev, c) ==
    CASE c.fn = "prepare_time_step" ->
            prev.fn \in {"none", "finalize_time_step", "do_time_step"}
      [] c.fn = "prepare_solve" -> prev.fn \in {"prepare_time_step", "finalize_solve"}
      [] c.fn = "solve" -> prev.fn \in {"prepare_solve", "solve"} /\ prev.id = c.id
      [] c.fn = "finalize_solve" -> prev.fn = "solve" /\ prev.id = c.id
      [] c.fn = "finalize_time_step" -> prev.fn \in {"finalize_solve", "do_time_step"}
      [] OTHER -> TRUE

----------------------------------------------------------------------------
(* C1: when a directory-scoped method returns or raises, the process current
   directory equals the directory at the moment the method was invoked, for
   both outcomes of the kernel call.  The code restores the directory only
   after a successful call. *)
C1_DirectoryRestored ==
    last.method \in ScopedMethods => cwd = last.cwd0

(* C2: for every method that invokes a kernel function, the clock queries,
   the metadata and grid queries, get_value_ptr and get_subcomponent_count
   included, the kernel function runs with the process in working_directory. *)
C2_EveryKernelCallInWorkingDirectory ==
    \A i \in 1..Len(klog) : klog[i].cwd = Chdir(last.cwd0, working_directory)

(* C2 amended: the kernel function of a directory-scoped method runs in
   working_directory (resolved from the caller's directory); the kernel
   functions of every other method run in the directory the caller was in. *)
C2_ScopedCallsInWorkingDirectory ==
    \A i \in 1..Len(klog) :
        /\ last.method \in ScopedMethods =>
              klog[i].cwd = Chdir(last.cwd0, working_directory)
        /\ last.method \notin ScopedMethods => klog[i].cwd = last.cwd0

C2_Witness ==
    /\ last.method = "solve"
    /\ Len(klog) = 1
    /\ last.cwd0 = HomeDir
    /\ working_directory = "/work"
    /\ klog[1].cwd = "/work"

(* C3: when all kernel queries succeed, get_value_ptr (N-dimensional or
   scalar path) returns a view of the element type matching the reported
   type string, or raises a named Unsupported*Error; it never returns None. *)
C3_ViewOrUnsupportedError ==
    (last.method \in ValuePtrMethods /\ AllSucceeded) =>
        \/ /\ ~last.raised
           /\ last.value.kind = "view"
           /\ \A t \in ReportedTypes :
                 \/ IsDoubleType(t) /\ last.value.dtype = "float64"
                 \/ IsIntType(t) /\ last.value.dtype = "int32"
        \/ /\ last.raised
           /\ last.exc \in {"UnsupportedVariableTypeError", "UnsupportedScalarTypeError"}

(* C4: the logical shape of the view is the longest prefix of the raw shape
   whose last entry is non-zero: only trailing zeros are removed. *)
C4_OnlyTrailingZerosTrimmed ==
    ReturnedNdView =>
        \A raw \in ReportedShapes : last.value.shape = PrefixToLastNonZero(raw)

(* C4 amended: the logical shape is the raw shape without its leading and
   its trailing zeros: the raw shape is zeros, then the logical shape, then
   zeros, and a non-empty logical shape begins and ends with a non-zero entry;
   zeros between two non-zero entries are kept. *)
C4_LeadingAndTrailingZerosTrimmed ==
    ReturnedNdView =>
        \A raw \in ReportedShapes :
            LET shape == last.value.shape
            IN  /\ \E i, j \in 0..Len(raw) : raw = Zeros(i) \o shape \o Zeros(j)
                /\ shape # <<>> => shape[1] # 0 /\ shape[Len(shape)] # 0

C4_Witness ==
    /\ ReturnedNdView
    /\ ReportedShapes = {<<0, 5>>}
    /\ last.value.shape = <<5>>

(* C5: a coupling call made out of the order prepare_time_step,
   {prepare_solve(id), solve(id)+, finalize_solve(id)}*, finalize_time_step
   is not dispatched to the kernel. *)
C5_OutOfOrderNotDispatched ==
    \A i \in 1..Len(klog) :
        klog[i].fn \in CouplingFns => Allowed(kprev, klog[i])

(* C5 amended: the adapter keeps no step state and enforces no order: every
   coupling call is dispatched to the kernel, once, with the id it was given,
   whatever the kernel completed before it. *)
C5_EveryCouplingCallDispatched ==
    last.method \in CouplingFns =>
        /\ Len(klog) = 1
        /\ klog[1].fn = last.method
        /\ klog[1].id = last.id

C5_Witness ==
    /\ last.method = "solve"
    /\ last.id = <<2>>
    /\ kprev = [fn |-> "prepare_solve", id |-> <<1>>]
    /\ Len(klog) = 1
    /\ klog[1].fn = "solve"
    /\ klog[1].id = <<2>>

(* C6: when the kernel's solve returns status 0, solve(id) returns true iff
   the kernel wrote exactly 1 to the convergence output; any other integer,
   or nothing written, gives false. *)
C6_ConvergedIffOne ==
    (last.method = "solve" /\ Len(klog) = 1 /\ klog[1].status = 0) =>
        /\ ~last.raised
        /\ last.value.kind = "bool"
        /\ last.value.flag <=> (klog[1].out = <<1>>)

C6_Witness ==
    /\ last.method = "solve"
    /\ ~last.raised
    /\ klog[1].out = <<2>>
    /\ last.value.flag = FALSE

(* C7: a non-zero status makes the method raise at once: the failed kernel
   call is the last one the method makes, so a failed rank, type or shape
   query is followed by no pointer query and a failed solve by no other call. *)
C7_FailureEndsTheMethod ==
    \A i \in 1..Len(klog) :
        klog[i].status # 0 =>
            /\ i = Len(klog)
            /\ last.raised
            /\ last.exc = "Exception"
            /\ \A j \in 1..(i - 1) : klog[j].status = 0

C7_Witness ==
    /\ last.method = "get_value_ptr"
    /\ Len(klog) = 4
    /\ klog[4].fn = "get_var_shape"
    /\ klog[4].status = -1
    /\ last.raised

(* C8: update_until fails for every target time, in every adapter state,
   with the kernel-call error naming "update_until", and invokes no kernel
   function. *)
C8_UpdateUntilAlwaysFails ==
    last.method = "update_until" =>
        /\ last.raised
        /\ last.exc = "Exception"
        /\ last.msg = <<"MODFLOW 6 BMI, exception in: ", "update_until", " (", ")">>
        /\ klog = <<>>

C8_Witness ==
    /\ last.method = "update_until"
    /\ last.raised
    /\ kprev.fn = "prepare_solve"

(* C9: when a kernel call about a named variable or a grid id fails, the
   error carries the kernel function's name and a detail identifying the
   subject the caller passed: the variable name, or the grid id. *)
C9_ErrorIdentifiesSubject ==
    (last.raised /\ last.exc = "Exception" /\ klog # <<>>) =>
        /\ last.method \in VarMethods =>
              last.msg = <<"MODFLOW 6 BMI, exception in: ",
                           IF klog[Len(klog)].fn \in {"get_value_ptr_double",
                                                      "get_value_ptr_int"}
                           THEN "get_value_ptr" ELSE klog[Len(klog)].fn,
                           " (", "for variable ", last.name, ")">>
        /\ last.method \in GridMethods =>
              last.msg = <<"MODFLOW 6 BMI, exception in: ", last.method,
                           " (", "for id ", Str(last.id[1]), ")">>

(* C10: with working_directory an absolute path other than the caller's
   directory, the current directory between calls is the caller's original
   directory or working_directory; a failed scoped call leaves it in
   working_directory, the next scoped call captures working_directory as
   previous_directory, and no later call leaves working_directory again. *)
C10_StuckInWorkingDirectory ==
    working_directory \notin {".", HomeDir} =>
        /\ cwd \in {HomeDir, working_directory}
        /\ (last.method \in ScopedMethods /\ last.raised) => cwd = working_directory
        /\ last.cwd0 = working_directory => cwd = working_directory
        /\ (last.method \in ScopedMethods /\ last.cwd0 = working_directory) =>
              previous_directory = working_directory

C10_Witness ==
    /\ working_directory = "/work"
    /\ last.method = "finalize"
    /\ ~last.raised
    /\ last.cwd0 = "/work"
    /\ previous_directory = "/work"
    /\ cwd = "/work"

====
